---- MODULE Spec2Model ----
(***************************************************************************)
(* Model of the student dashboard script (src/main.py): the helper         *)
(* functions that derive height, weight, age and body-mass index, the      *)
(* derivation of the table columns, the sidebar filters and the top-5      *)
(* selection.                                                              *)
(*                                                                         *)
(* Values.  A cell of the table is either text, a float or the missing     *)
(* value (NaN).  Every value is a record [k, m, d, s]:                     *)
(*   k = "str": the text s (a sequence of one-character strings);          *)
(*   k = "fin": the finite float m / 10^d, kept exactly as a decimal;      *)
(*   k = "inf": the float +infinity (m = 1) or -infinity (m = -1);         *)
(*   k = "nan": the missing value.                                         *)
(* Floats are modelled by their exact decimal value.  Where Python's       *)
(* round() meets a value exactly half-way between two results, the binary  *)
(* representation decides the direction; the model leaves that direction   *)
(* as an input (the parameter "up") chosen by the action.                  *)
(***************************************************************************)
EXTENDS Integers, Sequences, FiniteSets, TLC

VARIABLES
    call,            \* helper functions: the call under evaluation [fn, a, b, today]
    ret,             \* helper functions: its result, or Pending
    pc,              \* script: position of the run
    today,           \* script: pd.Timestamp.today() of the run
    raw,             \* script: the table as loaded (lines 71-81)
    df,              \* script: the table after derivation (lines 83-98)
    rh_sel,          \* sidebar: selected RH values
    hair_sel,        \* sidebar: selected Color_Cabello values
    barrio_sel,      \* sidebar: selected Barrio_Residencia values
    edad_range,      \* sidebar: <<lo, hi>> of the age slider
    estatura_range,  \* sidebar: <<lo, hi>> of the height slider
    filtered,        \* script: the filtered view (lines 127-135)
    top5_est,        \* script: top 5 by Estatura_cm (line 249)
    top5_peso        \* script: top 5 by Peso (line 250)

vars == <<call, ret, pc, today, raw, df, rh_sel, hair_sel, barrio_sel,
          edad_range, estatura_range, filtered, top5_est, top5_peso>>

fnVars == <<call, ret>>
scriptVars == <<pc, today, raw, df, rh_sel, hair_sel, barrio_sel,
                edad_range, estatura_range, filtered, top5_est, top5_peso>>

---------------------------------------------------------------------------
(* Bounds of the model *)

\* longest raw text written with any character of Alphabet
MaxLen == 4

\* longest raw text written with digits and decimal separators only
MaxNumLen == 5

---------------------------------------------------------------------------
(* Values *)

NaN == [k |-> "nan", m |-> 0, d |-> 0, s |-> <<>>]
Inf(sign) == [k |-> "inf", m |-> sign, d |-> 0, s |-> <<>>]
Str(t) == [k |-> "str", m |-> 0, d |-> 0, s |-> t]
Pending == [k |-> "pending", m |-> 0, d |-> 0, s |-> <<>>]

RECURSIVE Pow10(_)
Pow10(n) == IF n = 0 THEN 1 ELSE 10 * Pow10(n - 1)

\* the finite float m / 10^d, in lowest decimal form
RECURSIVE Fin(_, _)
Fin(m, d) ==
    IF d > 0 /\ m % 10 = 0 THEN Fin(m \div 10, d - 1)
    ELSE [k |-> "fin", m |-> m, d |-> d, s |-> <<>>]

Num(n) == Fin(n, 0)

\* pd.isna / np.isnan
isna(v) == v.k = "nan"

\* x < y on floats; any comparison with NaN is false
Lt(x, y) ==
    CASE x.k = "nan" \/ y.k = "nan" -> FALSE
      [] x.k = "inf" /\ y.k = "inf" -> x.m < y.m
      [] x.k = "inf" -> x.m < 0
      [] y.k = "inf" -> y.m > 0
      [] OTHER -> x.m * Pow10(y.d) < y.m * Pow10(x.d)

\* x == y on floats
Eq(x, y) ==
    CASE x.k = "nan" \/ y.k = "nan" -> FALSE
      [] x.k = "inf" \/ y.k = "inf" -> x.k = y.k /\ x.m = y.m
      [] OTHER -> x.m * Pow10(y.d) = y.m * Pow10(x.d)

Le(x, y) == Lt(x, y) \/ Eq(x, y)
Ge(x, y) == Le(y, x)

\* num * 100
Mul100(x) ==
    IF x.k # "fin" THEN x
    ELSE IF x.d >= 2 THEN Fin(x.m, x.d - 2)
    ELSE Fin(x.m * Pow10(2 - x.d), 0)

\* the integer nearest to n / q (q > 0); an exact half goes up iff "up"
RoundDiv(n, q, up) ==
    LET f == n \div q
        r == n % q
    IN  IF 2 * r < q THEN f
        ELSE IF 2 * r > q THEN f + 1
        ELSE IF up THEN f + 1 ELSE f

\* round(x, 2)
round2(x, up) ==
    IF x.k # "fin" \/ x.d <= 2 THEN x
    ELSE Fin(RoundDiv(x.m, Pow10(x.d - 2), up), 2)

---------------------------------------------------------------------------
(* Text *)

Digits == {"0", "1", "2", "3", "4", "5", "6", "7", "8", "9"}
DigitVal(c) ==
    CASE c = "0" -> 0 [] c = "1" -> 1 [] c = "2" -> 2 [] c = "3" -> 3
      [] c = "4" -> 4 [] c = "5" -> 5 [] c = "6" -> 6 [] c = "7" -> 7
      [] c = "8" -> 8 [] c = "9" -> 9

\* the characters the raw height and weight texts are written with
Alphabet == {"1", "3", ".", " ", "-", "i", "n", "f"}
NumAlphabet == {"0", "1", "3", "5", ".", ","}
Texts ==
    UNION ({[1..n -> Alphabet] : n \in 0..MaxLen}
           \cup {[1..n -> NumAlphabet] : n \in 0..MaxNumLen})

RECURSIVE lstrip(_)
lstrip(t) == IF t # <<>> /\ Head(t) = " " THEN lstrip(Tail(t)) ELSE t

RECURSIVE rstrip(_)
rstrip(t) ==
    IF t # <<>> /\ t[Len(t)] = " " THEN rstrip(SubSeq(t, 1, Len(t) - 1)) ELSE t

\* str.strip()
strip(t) == rstrip(lstrip(t))

\* str.replace(a, b) for one-character a and b
replace(t, a, b) == [i \in 1..Len(t) |-> IF t[i] = a THEN b ELSE t[i]]

\* the number written by a sequence of digits
RECURSIVE DigitsValue(_)
DigitsValue(t) ==
    IF t = <<>> THEN 0
    ELSE 10 * DigitsValue(SubSeq(t, 1, Len(t) - 1)) + DigitVal(t[Len(t)])

\* float(t): the float a text denotes, or ValueError.  Python accepts an
\* optional sign followed by "inf", "infinity", "nan" or digits with at most
\* one point and at least one digit (exponents and digit-group underscores are
\* not written with the characters of Alphabet).
ValueError == [k |-> "ValueError", m |-> 0, d |-> 0, s |-> <<>>]
float(t0) ==
    LET t == strip(t0)
        signed == t # <<>> /\ t[1] \in {"-", "+"}
        sign == IF signed /\ t[1] = "-" THEN -1 ELSE 1
        body == IF signed THEN Tail(t) ELSE t
        dots == {i \in 1..Len(body) : body[i] = "."}
        digs == {i \in 1..Len(body) : body[i] \in Digits}
        dot == IF dots = {} THEN Len(body) + 1 ELSE CHOOSE i \in dots : TRUE
        int == SubSeq(body, 1, dot - 1)
        frac == SubSeq(body, dot + 1, Len(body))
    IN  IF body \in {<<"i", "n", "f">>, <<"i", "n", "f", "i", "n", "i", "t", "y">>}
            THEN Inf(sign)
        ELSE IF body = <<"n", "a", "n">> THEN NaN
        ELSE IF /\ Cardinality(dots) <= 1
                /\ digs # {}
                /\ digs \cup dots = 1..Len(body)
            THEN Fin(sign * DigitsValue(int \o frac), Len(frac))
        ELSE ValueError

---------------------------------------------------------------------------
(* Helpers (lines 11-62) *)

\* parse_height_to_cm with the test num < 3 in place of num <= 3
parse_height_to_cm_le_as_lt(value, up) ==
    IF isna(value) THEN NaN
    ELSE LET num == float(replace(strip(value.s), ",", "."))
         IN  IF num = ValueError THEN NaN
             ELSE IF Lt(num, Num(3)) THEN round2(Mul100(num), up)
             ELSE round2(num, up)

parse_height_to_cm(value, up) ==
    IF isna(value) THEN NaN
    ELSE LET num == float(replace(strip(value.s), ",", "."))
         IN  IF num = ValueError THEN NaN
             ELSE IF Le(num, Num(3)) THEN round2(Mul100(num), up)
             ELSE round2(num, up)

parse_weight(value) ==
    IF isna(value) THEN NaN
    ELSE LET num == float(replace(strip(value.s), ",", "."))
         IN  IF num = ValueError THEN NaN ELSE num

\* a calendar date
Date(y, m, d) == [y |-> y, m |-> m, d |-> d]
NaT == [y |-> 0, m |-> 0, d |-> 0]

IsLeap(y) == (y % 4 = 0 /\ y % 100 # 0) \/ y % 400 = 0
DaysIn(y, m) ==
    IF m = 2 THEN (IF IsLeap(y) THEN 29 ELSE 28)
    ELSE IF m \in {4, 6, 9, 11} THEN 30 ELSE 31

\* a date pd.Timestamp can hold
ValidDate(y, m, d) ==
    /\ y \in 1678..2261
    /\ m \in 1..12
    /\ d \in 1..DaysIn(y, m)

\* the fields of a text between occurrences of the separator
RECURSIVE split(_, _)
split(t, sep) ==
    IF \A i \in 1..Len(t) : t[i] # sep THEN <<t>>
    ELSE LET i == CHOOSE j \in 1..Len(t) :
                      t[j] = sep /\ \A h \in 1..(j - 1) : t[h] # sep
         IN  <<SubSeq(t, 1, i - 1)>> \o split(SubSeq(t, i + 1, Len(t)), sep)

IsNumber(t) == t # <<>> /\ \A i \in 1..Len(t) : t[i] \in Digits

\* pd.to_datetime(text, dayfirst=True, errors='coerce') on the texts of the
\* model: "a/b/yyyy" is read day first; when that is no date but month first
\* is, the parser either falls back to month first (swap) or gives NaT,
\* depending on the pandas version; "yyyy-mm-dd" is read as ISO; the empty
\* text and a text without digits give NaT.
to_datetime(t, swap) ==
    LET bySlash == split(strip(t), "/")
        byDash == split(strip(t), "-")
    IN  IF Len(bySlash) = 3 /\ \A i \in 1..3 : IsNumber(bySlash[i])
        THEN LET a == DigitsValue(bySlash[1])
                 b == DigitsValue(bySlash[2])
                 y == DigitsValue(bySlash[3])
             IN  IF ValidDate(y, b, a) THEN Date(y, b, a)
                 ELSE IF swap /\ ValidDate(y, a, b) THEN Date(y, a, b)
                 ELSE NaT
        ELSE IF /\ Len(byDash) = 3
                /\ \A i \in 1..3 : IsNumber(byDash[i])
                /\ Len(byDash[1]) = 4
        THEN LET y == DigitsValue(byDash[1])
                 m == DigitsValue(byDash[2])
                 d == DigitsValue(byDash[3])
             IN  IF ValidDate(y, m, d) THEN Date(y, m, d) ELSE NaT
        ELSE NaT

\* (m1, d1) < (m2, d2), as Python compares tuples
TupleLt(m1, d1, m2, d2) == m1 < m2 \/ (m1 = m2 /\ d1 < d2)

\* calculate_age comparing the days alone, without the months
calculate_age_day_only(birthdate, now, swap) ==
    IF isna(birthdate) THEN NaN
    ELSE LET bd == to_datetime(birthdate.s, swap)
         IN  IF bd = NaT THEN NaN
             ELSE Num(now.y - bd.y - (IF now.d < bd.d THEN 1 ELSE 0))

calculate_age(birthdate, now, swap) ==
    IF isna(birthdate) THEN NaN
    ELSE LET bd == to_datetime(birthdate.s, swap)
         IN  IF bd = NaT THEN NaN
             ELSE Num(now.y - bd.y
                      - (IF TupleLt(now.m, now.d, bd.m, bd.d) THEN 1 ELSE 0))

\* the integer nearest to n * 10^p / q (q > 0), cancelling the factors of ten
\* as they come so that the intermediate products stay small
RECURSIVE RatRound(_, _, _, _)
RatRound(n, p, q, up) ==
    IF p = 0 THEN RoundDiv(n, q, up)
    ELSE IF p > 0
    THEN IF q % 10 = 0 THEN RatRound(n, p - 1, q \div 10, up)
         ELSE IF q % 5 = 0 THEN RatRound(n * 2, p - 1, q \div 5, up)
         ELSE IF q % 2 = 0 THEN RatRound(n * 5, p - 1, q \div 2, up)
         ELSE RatRound(n * 10, p - 1, q, up)
    ELSE IF n % 10 = 0 THEN RatRound(n \div 10, p + 1, q, up)
         ELSE IF n % 5 = 0 THEN RatRound(n \div 5, p + 1, q * 2, up)
         ELSE IF n % 2 = 0 THEN RatRound(n \div 2, p + 1, q * 5, up)
         ELSE RatRound(n, p + 1, q * 10, up)

\* round(weight_kg / (h_m * h_m), 2) with h_m = height_cm / 100, on floats
bmi_quotient(weight_kg, height_cm, up) ==
    CASE height_cm.k = "inf" ->
             IF weight_kg.k = "inf" THEN NaN ELSE Num(0)
      [] weight_kg.k = "inf" -> weight_kg
      [] OTHER ->
             Fin(RatRound(weight_kg.m,
                          6 + 2 * height_cm.d - weight_kg.d,
                          height_cm.m * height_cm.m, up), 2)

\* calculate_bmi without the test height_cm == 0: the division gives infinity
calculate_bmi_no_zero_test(weight_kg, height_cm, up) ==
    IF isna(weight_kg) \/ isna(height_cm) THEN NaN
    ELSE IF Eq(height_cm, Num(0)) THEN Inf(1)
    ELSE bmi_quotient(weight_kg, height_cm, up)

calculate_bmi(weight_kg, height_cm, up) ==
    IF isna(weight_kg) \/ isna(height_cm) \/ Eq(height_cm, Num(0)) THEN NaN
    ELSE bmi_quotient(weight_kg, height_cm, up)

\* a text written as one word
Word(w) == Str(<<w>>)

\* bmi_category with <= in place of <
bmi_category_le(bmi) ==
    IF isna(bmi) THEN Word("Desconocido")
    ELSE IF Le(bmi, Fin(185, 1)) THEN Word("Bajo peso")
    ELSE IF Le(bmi, Num(25)) THEN Word("Normal")
    ELSE IF Le(bmi, Num(30)) THEN Word("Sobrepeso")
    ELSE Word("Obesidad")

bmi_category(bmi) ==
    IF isna(bmi) THEN Word("Desconocido")
    ELSE IF Lt(bmi, Fin(185, 1)) THEN Word("Bajo peso")
    ELSE IF Lt(bmi, Num(25)) THEN Word("Normal")
    ELSE IF Lt(bmi, Num(30)) THEN Word("Sobrepeso")
    ELSE Word("Obesidad")

---------------------------------------------------------------------------
(* The helper functions, each applied to one input *)

DigitChars == <<"0", "1", "2", "3", "4", "5", "6", "7", "8", "9">>
TwoDigits(n) == <<DigitChars[((n \div 10) % 10) + 1], DigitChars[(n % 10) + 1]>>
FourDigits(n) == TwoDigits(n \div 100) \o TwoDigits(n % 100)

\* the text "aa/bb/yyyy" and the text "yyyy-mm-dd"
SlashText(a, b, y) == TwoDigits(a) \o <<"/">> \o TwoDigits(b) \o <<"/">> \o FourDigits(y)
IsoText(y, m, d) == FourDigits(y) \o <<"-">> \o TwoDigits(m) \o <<"-">> \o TwoDigits(d)

NoDate == Date(0, 0, 0)
Call(fn, a, b, now, src) == [fn |-> fn, a |-> a, b |-> b, now |-> now, src |-> src]

HeightCalls ==
    {Call("parse_height_to_cm", v, NaN, NoDate, NoDate) :
        v \in {NaN} \cup {Str(t) : t \in Texts}}

BmiWeights ==
    {NaN, Inf(1), Num(0), Num(50), Num(70), Fin(705, 1), Num(120), Num(-70)}
BmiHeights ==
    {NaN, Inf(1), Num(0), Num(50), Num(150), Num(175), Num(200), Num(-175)}
BmiCalls ==
    {Call("calculate_bmi", w, h, NoDate, NoDate) :
        w \in BmiWeights, h \in BmiHeights}

BmiValues ==
    {NaN, Inf(1), Inf(-1), Fin(18499, 3), Fin(24999, 3), Fin(29999, 3), Num(-1)}
        \cup {Fin(n, 2) : n \in 1800..3100}
CategoryCalls ==
    {Call("bmi_category", v, NaN, NoDate, NoDate) : v \in BmiValues}

Todays ==
    {Date(y, m, d) : y \in {2024, 2025}, m \in {1, 2, 3, 12}, d \in {1, 15, 28, 29}}
        \ {Date(2025, 2, 29)}
BirthFields == {1, 3, 12, 15, 29, 31}
BirthYears == {2000, 2001, 2030}
AgeCalls ==
    {Call("calculate_age", Str(SlashText(a, b, y)), NaN, now, Date(y, b, a)) :
        a \in BirthFields, b \in BirthFields, y \in BirthYears, now \in Todays}
    \cup {Call("calculate_age", Str(IsoText(y, m, d)), NaN, now, Date(y, m, d)) :
        d \in {15, 29, 31}, m \in {1, 2, 3}, y \in {2000}, now \in Todays}
    \cup {Call("calculate_age", v, NaN, now, NoDate) :
        v \in {NaN, Str(<<>>), Str(<<"a", "b", "c">>)},
        now \in Todays}

FnInit ==
    /\ call \in HeightCalls \cup BmiCalls \cup CategoryCalls \cup AgeCalls
    /\ ret = Pending
    /\ pc = "helpers"
    /\ today = NoDate
    /\ raw = <<>>
    /\ df = <<>>
    /\ rh_sel = {}
    /\ hair_sel = {}
    /\ barrio_sel = {}
    /\ edad_range = <<0, 0>>
    /\ estatura_range = <<0, 0>>
    /\ filtered = <<>>
    /\ top5_est = <<>>
    /\ top5_peso = <<>>

CallParseHeight ==
    /\ call.fn = "parse_height_to_cm"
    /\ ret = Pending
    /\ \E up \in BOOLEAN : ret' = parse_height_to_cm(call.a, up)
    /\ UNCHANGED <<call, scriptVars>>

CallCalculateBmi ==
    /\ call.fn = "calculate_bmi"
    /\ ret = Pending
    /\ \E up \in BOOLEAN : ret' = calculate_bmi(call.a, call.b, up)
    /\ UNCHANGED <<call, scriptVars>>

CallBmiCategory ==
    /\ call.fn = "bmi_category"
    /\ ret = Pending
    /\ ret' = bmi_category(call.a)
    /\ UNCHANGED <<call, scriptVars>>

CallCalculateAge ==
    /\ call.fn = "calculate_age"
    /\ ret = Pending
    /\ \E swap \in BOOLEAN : ret' = calculate_age(call.a, call.now, swap)
    /\ UNCHANGED <<call, scriptVars>>

FnNext ==
    \/ CallParseHeight
    \/ CallCalculateBmi
    \/ CallBmiCategory
    \/ CallCalculateAge

FnSpec == FnInit /\ [][FnNext]_vars

---------------------------------------------------------------------------
(* Properties of the helper functions *)

Abs(n) == IF n < 0 THEN -n ELSE n

\* a text without its leading sign
Unsigned(u) == IF u # <<>> /\ u[1] \in {"-", "+"} THEN Tail(u) ELSE u
SignOf(u) == IF u # <<>> /\ u[1] = "-" THEN -1 ELSE 1

\* the text of a decimal number: an optional sign, then digits with at most
\* one decimal point among them
IsDecimalText(u) ==
    LET b == Unsigned(u)
    IN  /\ \E i \in 1..Len(b) : b[i] \in Digits
        /\ \A i \in 1..Len(b) : b[i] \in Digits \cup {"."}
        /\ \A i, j \in 1..Len(b) : (b[i] = "." /\ b[j] = ".") => i = j

\* the text of an infinity
IsInfText(u) ==
    Unsigned(u) \in {<<"i", "n", "f">>, <<"i", "n", "f", "i", "n", "i", "t", "y">>}

\* a decimal text denotes Mantissa(u) / 10^FracLen(u)
IsDigit(c) == c \in Digits
Mantissa(u) == SignOf(u) * DigitsValue(SelectSeq(Unsigned(u), IsDigit))
FracLen(u) ==
    LET b == Unsigned(u)
    IN  IF \E i \in 1..Len(b) : b[i] = "."
        THEN Len(b) - (CHOOSE i \in 1..Len(b) : b[i] = ".")
        ELSE 0

\* R is an integer nearest to M / 10^e
NearestHundredth(R, M, e) ==
    IF e >= 0 THEN 2 * Abs(R * Pow10(e) - M) <= Pow10(e)
    ELSE R = M * Pow10(-e)

\* r is the number of u in centimetres, to the nearest hundredth: the number
\* times 100 when it is at most 3, the number itself when it is above 3
HeightRule(u, r) ==
    /\ r.k = "fin"
    /\ r.d <= 2
    /\ LET F == FracLen(u)
           M == Mantissa(u)
           R == r.m * Pow10(2 - r.d)
       IN  IF M <= 3 * Pow10(F)
           THEN NearestHundredth(R, M, F - 4)
           ELSE NearestHundredth(R, M, F - 2)

HeightText == replace(strip(call.a.s), ",", ".")
HeightDone == call.fn = "parse_height_to_cm" /\ ret # Pending

\* C1 as stated: parse_height_to_cm gives absent for an absent, empty or
\* non-decimal text, and otherwise the number times 100 (when <= 3) or the
\* number itself (when > 3), rounded to 2 decimals.
C1_AsStated ==
    HeightDone =>
        IF isna(call.a) \/ ~IsDecimalText(HeightText) THEN ret = NaN
        ELSE HeightRule(HeightText, ret)

\* C1 amended: parse_height_to_cm gives absent for an absent input and for a
\* text that is neither a decimal number nor the name of an infinity; for
\* "inf" with an optional sign it gives that infinity; otherwise the number
\* times 100 (when <= 3) or the number itself (when > 3), rounded to 2
\* decimals.
C1_ParseHeight ==
    HeightDone =>
        IF isna(call.a) THEN ret = NaN
        ELSE IF IsInfText(HeightText) THEN ret = Inf(SignOf(HeightText))
        ELSE IF ~IsDecimalText(HeightText) THEN ret = NaN
        ELSE HeightRule(HeightText, ret)

\* "1,5" has been parsed to 150.0
C1_Witness ==
    /\ call.fn = "parse_height_to_cm"
    /\ call.a = Str(<<"1", ",", "5">>)
    /\ ret = Num(150)

Band(bmi) ==
    LET t == bmi.m * Pow10(3 - bmi.d)
    IN  IF t < 18500 THEN "Bajo peso"
        ELSE IF t < 25000 THEN "Normal"
        ELSE IF t < 30000 THEN "Sobrepeso"
        ELSE "Obesidad"

\* C3: bmi_category gives "Desconocido" exactly when bmi is absent, and
\* otherwise the band of bmi: below 18.5, from 18.5 to below 25, from 25 to
\* below 30, and 30 or more; each boundary belongs to the higher band.
C3_BmiCategory ==
    (call.fn = "bmi_category" /\ ret # Pending) =>
        /\ (ret = Word("Desconocido")) <=> isna(call.a)
        /\ call.a.k = "fin" => ret = Word(Band(call.a))
        /\ call.a.k = "inf" =>
               ret = Word(IF call.a.m > 0 THEN "Obesidad" ELSE "Bajo peso")

\* the boundary 18.5 has been classified as Normal
C3_Witness ==
    /\ call.fn = "bmi_category"
    /\ call.a = Fin(185, 1)
    /\ ret = Word("Normal")

\* the age on the day "now" of someone born on the date b
AgeOn(now, b) ==
    Num(now.y - b.y - (IF 100 * now.m + now.d < 100 * b.m + b.d THEN 1 ELSE 0))

\* C4: for a birth date written day first (or in ISO form), calculate_age is
\* the difference of the years, minus 1 exactly when today's (month, day)
\* is before the birthday's; an absent or unparseable birth date gives absent.
\* A text that is a date only when read month first gives either absent or
\* the age for that reading.
C4_CalculateAge ==
    (call.fn = "calculate_age" /\ ret # Pending) =>
        LET b == call.src
        IN  IF ValidDate(b.y, b.m, b.d) THEN ret = AgeOn(call.now, b)
            ELSE IF ValidDate(b.y, b.d, b.m)
            THEN ret \in {NaN, AgeOn(call.now, Date(b.y, b.d, b.m))}
            ELSE ret = NaN

\* born 15/03/2000, today 2024-01-01: the age is 23
C4_Witness ==
    /\ call.fn = "calculate_age"
    /\ call.a = Str(SlashText(15, 3, 2000))
    /\ call.now = Date(2024, 1, 1)
    /\ ret = Num(23)

---------------------------------------------------------------------------
(* The script: loading and derivation (lines 71-98) *)

\* the upper bound of the number of rows of the file
MaxRows == 2

expected_cols ==
    {"Codigo", "Nombre_Estudiante", "Apellido_Estudiante", "Fecha_Nacimiento",
     "Estatura", "Peso", "RH", "Color_Cabello", "Talla_Zapato",
     "Barrio_Residencia"}

text_cols == {"RH", "Color_Cabello", "Barrio_Residencia"}

\* the cased letters of the model's texts
Lower == <<"a", "c", "e", "g", "n", "o", "r", "t">>
Upper == <<"A", "C", "E", "G", "N", "O", "R", "T">>
IsLower(c) == \E i \in 1..Len(Lower) : Lower[i] = c
IsUpper(c) == \E i \in 1..Len(Upper) : Upper[i] = c
IsCased(c) == IsLower(c) \/ IsUpper(c)
ToUpper(c) == IF IsLower(c) THEN Upper[CHOOSE i \in 1..Len(Lower) : Lower[i] = c] ELSE c
ToLower(c) == IF IsUpper(c) THEN Lower[CHOOSE i \in 1..Len(Upper) : Upper[i] = c] ELSE c

\* str.title(): a cased character is upper case after an uncased one (or at
\* the start) and lower case after a cased one
title(t) ==
    [i \in 1..Len(t) |->
        IF i > 1 /\ IsCased(t[i - 1]) THEN ToLower(t[i]) ELSE ToUpper(t[i])]

\* Series.astype(str) on an object column of texts and missing values: the
\* missing value becomes the text "nan"
astype_str(v) == IF isna(v) THEN Str(<<"n", "a", "n">>) ELSE v

\* df[col].astype(str).str.strip().str.title() on one cell (line 89)
normalize_text(v) == Str(title(strip(astype_str(v).s)))

\* Series.fillna('') on one cell
fillna_empty(v) == IF isna(v) THEN Str(<<>>) ELSE v

\* derive_row assigning the height in centimetres to the column Estatura
derive_row_overwrite_estatura(i, r, now, upH, upB, swap) ==
    LET Estatura_cm == parse_height_to_cm(r.Estatura, upH)
        Peso == parse_weight(r.Peso)
        IMC == calculate_bmi(Peso, Estatura_cm, upB)
    IN  [idx |-> i,
         Codigo |-> r.Codigo,
         Nombre_Estudiante |-> r.Nombre_Estudiante,
         Apellido_Estudiante |-> r.Apellido_Estudiante,
         Fecha_Nacimiento |-> r.Fecha_Nacimiento,
         Estatura |-> Estatura_cm,
         Peso |-> Peso,
         RH |-> normalize_text(r.RH),
         Color_Cabello |-> normalize_text(r.Color_Cabello),
         Talla_Zapato |-> r.Talla_Zapato,
         Barrio_Residencia |-> normalize_text(r.Barrio_Residencia),
         Integrante |-> Str(fillna_empty(r.Nombre_Estudiante).s \o <<" ">>
                            \o fillna_empty(r.Apellido_Estudiante).s),
         Estatura_cm |-> Estatura_cm,
         Edad |-> calculate_age(r.Fecha_Nacimiento, now, swap),
         IMC |-> IMC,
         Clasificacion_IMC |-> bmi_category(IMC)]

\* one row of the table after lines 83-98; idx is the row's index label
derive_row(i, r, now, upH, upB, swap) ==
    LET Estatura_cm == parse_height_to_cm(r.Estatura, upH)
        Peso == parse_weight(r.Peso)
        IMC == calculate_bmi(Peso, Estatura_cm, upB)
    IN  [idx |-> i,
         Codigo |-> r.Codigo,
         Nombre_Estudiante |-> r.Nombre_Estudiante,
         Apellido_Estudiante |-> r.Apellido_Estudiante,
         Fecha_Nacimiento |-> r.Fecha_Nacimiento,
         Estatura |-> r.Estatura,
         Peso |-> Peso,
         RH |-> normalize_text(r.RH),
         Color_Cabello |-> normalize_text(r.Color_Cabello),
         Talla_Zapato |-> r.Talla_Zapato,
         Barrio_Residencia |-> normalize_text(r.Barrio_Residencia),
         Integrante |-> Str(fillna_empty(r.Nombre_Estudiante).s \o <<" ">>
                            \o fillna_empty(r.Apellido_Estudiante).s),
         Estatura_cm |-> Estatura_cm,
         Edad |-> calculate_age(r.Fecha_Nacimiento, now, swap),
         IMC |-> IMC,
         Clasificacion_IMC |-> bmi_category(IMC)]

\* the rows a file may hold
FileRow(cod, nom, ape, fec, est, pes, rh, col, tal, bar) ==
    [Codigo |-> cod, Nombre_Estudiante |-> nom, Apellido_Estudiante |-> ape,
     Fecha_Nacimiento |-> fec, Estatura |-> est, Peso |-> pes, RH |-> rh,
     Color_Cabello |-> col, Talla_Zapato |-> tal, Barrio_Residencia |-> bar]

FileRows ==
    {FileRow(Str(<<"1">>), Str(<<"A", "n", "a">>), Str(<<"P", "a", "z">>),
             Str(SlashText(15, 3, 2000)), Str(<<"1", ".", "7", "5">>),
             Str(<<"7", "0">>), Str(<<" ", "o", "+", " ">>),
             Str(<<"n", "e", "g", "r", "o">>), Str(<<"3", "8">>),
             Str(<<"c", "e", "n", "t", "r", "o">>)),
     FileRow(Str(<<"2">>), NaN, Str(<<"R", "o", "a">>),
             Str(SlashText(1, 12, 2000)), Str(<<"1", "7", "5", ".", "5">>),
             Str(<<"7", "0", ",", "5">>), Str(<<"O", "+">>),
             NaN, NaN, Str(<<"C", "e", "n", "t", "r", "o", " ">>)),
     FileRow(NaN, Str(<<"E", "v", "a">>), NaN,
             NaN, Str(<<"1", "6", "0">>),
             NaN, NaN,
             Str(<<"N", "E", "G", "R", "O">>), Str(<<"3", "6">>), NaN),
     FileRow(Str(<<"4">>), Str(<<"L", "e", "o">>), Str(<<"G", "i", "l">>),
             Str(SlashText(15, 6, 2001)), Str(<<"a", "b", "c">>),
             Str(<<"8", "0">>), Str(<<"a", "-">>),
             Str(<<"n", "e", "g", "r", "o">>), Str(<<"4", "0">>),
             Str(<<"c", "e", "n", "t", "r", "o">>)),
     FileRow(Str(<<"5">>), Str(<<"I", "n", "f">>), Str(<<"O", "s">>),
             Str(SlashText(15, 3, 2000)), Str(<<"i", "n", "f">>),
             Str(<<"i", "n", "f">>), Str(<<"O", "+">>),
             Str(<<"n", "e", "g", "r", "o">>), Str(<<"3", "8">>),
             Str(<<"c", "e", "n", "t", "r", "o">>)),
     FileRow(Str(<<"6">>), Str(<<"T", "e", "o">>), Str(<<"R", "e", "y">>),
             Str(SlashText(1, 1, 2030)), Str(<<"3", "0", "0">>),
             Str(<<"7", "0">>), Str(<<"O", "+">>),
             Str(<<"n", "e", "g", "r", "o">>), Str(<<"3", "8">>),
             Str(<<"c", "e", "n", "t", "r", "o">>))}

\* the sets of expected columns a file may hold
FileColumns == {expected_cols, expected_cols \ {"RH", "Peso"}}

\* lines 71-81: the table read from the file, every expected column that the
\* file lacks added and filled with the missing value
load(rows, cols) ==
    [i \in 1..Len(rows) |->
        [c \in expected_cols |-> IF c \in cols THEN rows[i][c] ELSE NaN]]

Tables == UNION {[1..n -> FileRows] : n \in 0..MaxRows}

RunDate == Date(2024, 6, 1)

Init ==
    /\ call = Call("script", NaN, NaN, NoDate, NoDate)
    /\ ret = Pending
    /\ pc = "loaded"
    /\ today = RunDate
    /\ raw \in {load(rows, cols) : rows \in Tables, cols \in FileColumns}
    /\ df = <<>>
    /\ rh_sel = {}
    /\ hair_sel = {}
    /\ barrio_sel = {}
    /\ edad_range = <<0, 0>>
    /\ estatura_range = <<0, 0>>
    /\ filtered = <<>>
    /\ top5_est = <<>>
    /\ top5_peso = <<>>

\* lines 83-98
Derive ==
    /\ pc = "loaded"
    /\ \E upH, upB \in [1..Len(raw) -> BOOLEAN], swap \in BOOLEAN :
           df' = [i \in 1..Len(raw) |->
                     derive_row(i, raw[i], today, upH[i], upB[i], swap)]
    /\ pc' = "derived"
    /\ UNCHANGED <<call, ret, today, raw, rh_sel, hair_sel, barrio_sel,
                   edad_range, estatura_range, filtered, top5_est, top5_peso>>

---------------------------------------------------------------------------
(* The script: sidebar and filters (lines 109-135) *)

\* the limits of the two sliders (lines 123, 124)
SliderMin == 0
EdadSliderMax == 120
EstaturaSliderMax == 250

\* the default upper end of the age range of a table without ages (line 119)
EdadDefaultMax == 100

\* df[col].dropna().unique()
options(d, col) == {d[i][col] : i \in 1..Len(d)} \ {NaN}

\* Series.min(skipna=True), Series.max(skipna=True) of a column with a value
col_min(d, col) ==
    CHOOSE x \in options(d, col) : \A y \in options(d, col) : Le(x, y)
col_max(d, col) ==
    CHOOSE x \in options(d, col) : \A y \in options(d, col) : Ge(x, y)

\* int(x) of a finite float: truncation towards zero
int(x) == IF x.m >= 0 THEN x.m \div Pow10(x.d) ELSE -((-x.m) \div Pow10(x.d))

\* int() of an infinity raises OverflowError (lines 118-121)
OverflowError(d, col) == \E x \in options(d, col) : x.k = "inf"

\* lines 118-121: the default range of a slider
default_range(d, col, lo, hi) ==
    IF options(d, col) = {} THEN <<lo, hi>>
    ELSE <<int(col_min(d, col)), int(col_max(d, col))>>

\* st.slider raises StreamlitAPIException when the value it is given is not
\* within its limits
SliderError(value, lo, hi) == ~(lo <= value[1] /\ value[1] <= value[2] /\ value[2] <= hi)

\* Series.isin(values)
isin(v, values) == v \in values

\* apply_filters with the upper end of each range excluded
apply_filters_exclusive_hi(d, rh, hair, barrio, er, sr) ==
    LET InRh(r) == rh # {} => isin(r.RH, rh)
        InHair(r) == hair # {} => isin(r.Color_Cabello, hair)
        InBarrio(r) == barrio # {} => isin(r.Barrio_Residencia, barrio)
        InEdad(r) == Ge(r.Edad, Num(er[1])) /\ Lt(r.Edad, Num(er[2]))
        InEstatura(r) ==
            Ge(r.Estatura_cm, Num(sr[1])) /\ Lt(r.Estatura_cm, Num(sr[2]))
    IN  SelectSeq(SelectSeq(SelectSeq(SelectSeq(SelectSeq(d,
            InRh), InHair), InBarrio), InEdad), InEstatura)

\* apply_filters where a slider on its whole domain keeps the missing values
apply_filters_full_range_keeps_na(d, rh, hair, barrio, er, sr) ==
    LET InRh(r) == rh # {} => isin(r.RH, rh)
        InHair(r) == hair # {} => isin(r.Color_Cabello, hair)
        InBarrio(r) == barrio # {} => isin(r.Barrio_Residencia, barrio)
        InEdad(r) ==
            \/ Ge(r.Edad, Num(er[1])) /\ Le(r.Edad, Num(er[2]))
            \/ er = <<SliderMin, EdadSliderMax>> /\ isna(r.Edad)
        InEstatura(r) ==
            \/ Ge(r.Estatura_cm, Num(sr[1])) /\ Le(r.Estatura_cm, Num(sr[2]))
            \/ sr = <<SliderMin, EstaturaSliderMax>> /\ isna(r.Estatura_cm)
    IN  SelectSeq(SelectSeq(SelectSeq(SelectSeq(SelectSeq(d,
            InRh), InHair), InBarrio), InEdad), InEstatura)

\* lines 127-135
apply_filters(d, rh, hair, barrio, er, sr) ==
    LET InRh(r) == rh # {} => isin(r.RH, rh)
        InHair(r) == hair # {} => isin(r.Color_Cabello, hair)
        InBarrio(r) == barrio # {} => isin(r.Barrio_Residencia, barrio)
        InEdad(r) == Ge(r.Edad, Num(er[1])) /\ Le(r.Edad, Num(er[2]))
        InEstatura(r) ==
            Ge(r.Estatura_cm, Num(sr[1])) /\ Le(r.Estatura_cm, Num(sr[2]))
    IN  SelectSeq(SelectSeq(SelectSeq(SelectSeq(SelectSeq(d,
            InRh), InHair), InBarrio), InEdad), InEstatura)

\* the ranges a user moves the sliders to
EdadRanges == {<<SliderMin, EdadSliderMax>>, <<24, 24>>, <<SliderMin, 23>>}
EstaturaRanges == {<<SliderMin, EstaturaSliderMax>>, <<175, 175>>, <<176, EstaturaSliderMax>>}

\* lines 109-124 on the first run: the widgets take their default values, or
\* the run ends in an exception
Sidebar ==
    /\ pc = "derived"
    /\ IF \/ OverflowError(df, "Edad")
          \/ OverflowError(df, "Estatura_cm")
          \/ SliderError(default_range(df, "Edad", 0, EdadDefaultMax),
                         SliderMin, EdadSliderMax)
          \/ SliderError(default_range(df, "Estatura_cm", 0, EstaturaSliderMax),
                         SliderMin, EstaturaSliderMax)
       THEN /\ pc' = "crashed"
            /\ UNCHANGED <<rh_sel, hair_sel, barrio_sel, edad_range, estatura_range>>
       ELSE /\ pc' = "controls"
            /\ rh_sel' = options(df, "RH")
            /\ hair_sel' = options(df, "Color_Cabello")
            /\ barrio_sel' = options(df, "Barrio_Residencia")
            /\ edad_range' = default_range(df, "Edad", 0, EdadDefaultMax)
            /\ estatura_range' =
                   default_range(df, "Estatura_cm", 0, EstaturaSliderMax)
    /\ UNCHANGED <<call, ret, today, raw, df, filtered, top5_est, top5_peso>>

\* lines 127-135 on the first run
ApplyFilters ==
    /\ pc = "controls"
    /\ filtered' = apply_filters(df, rh_sel, hair_sel, barrio_sel,
                                 edad_range, estatura_range)
    /\ pc' = "filtered"
    /\ UNCHANGED <<call, ret, today, raw, df, rh_sel, hair_sel, barrio_sel,
                   edad_range, estatura_range, top5_est, top5_peso>>

\* the user changes one widget and the script runs again with its value
SelectRh ==
    /\ pc = "filtered"
    /\ \E sel \in SUBSET options(df, "RH") :
           /\ rh_sel' = sel
           /\ filtered' = apply_filters(df, sel, hair_sel, barrio_sel,
                                        edad_range, estatura_range)
    /\ UNCHANGED <<call, ret, pc, today, raw, df, hair_sel, barrio_sel,
                   edad_range, estatura_range, top5_est, top5_peso>>

SelectHair ==
    /\ pc = "filtered"
    /\ \E sel \in SUBSET options(df, "Color_Cabello") :
           /\ hair_sel' = sel
           /\ filtered' = apply_filters(df, rh_sel, sel, barrio_sel,
                                        edad_range, estatura_range)
    /\ UNCHANGED <<call, ret, pc, today, raw, df, rh_sel, barrio_sel,
                   edad_range, estatura_range, top5_est, top5_peso>>

SelectBarrio ==
    /\ pc = "filtered"
    /\ \E sel \in SUBSET options(df, "Barrio_Residencia") :
           /\ barrio_sel' = sel
           /\ filtered' = apply_filters(df, rh_sel, hair_sel, sel,
                                        edad_range, estatura_range)
    /\ UNCHANGED <<call, ret, pc, today, raw, df, rh_sel, hair_sel,
                   edad_range, estatura_range, top5_est, top5_peso>>

SlideEdad ==
    /\ pc = "filtered"
    /\ \E value \in EdadRanges :
           /\ edad_range' = value
           /\ filtered' = apply_filters(df, rh_sel, hair_sel, barrio_sel,
                                        value, estatura_range)
    /\ UNCHANGED <<call, ret, pc, today, raw, df, rh_sel, hair_sel,
                   barrio_sel, estatura_range, top5_est, top5_peso>>

SlideEstatura ==
    /\ pc = "filtered"
    /\ \E value \in EstaturaRanges :
           /\ estatura_range' = value
           /\ filtered' = apply_filters(df, rh_sel, hair_sel, barrio_sel,
                                        edad_range, value)
    /\ UNCHANGED <<call, ret, pc, today, raw, df, rh_sel, hair_sel,
                   barrio_sel, edad_range, top5_est, top5_peso>>

Next ==
    \/ Derive
    \/ Sidebar
    \/ ApplyFilters
    \/ SelectRh
    \/ SelectHair
    \/ SelectBarrio
    \/ SlideEdad
    \/ SlideEstatura

Spec == Init /\ [][Next]_vars

---------------------------------------------------------------------------
(* Properties of the script *)

\* the rows of a table, as a set
RowsOf(d) == {d[i] : i \in 1..Len(d)}

\* a float is a number from lo to hi, both included
Within(v, range) ==
    /\ v.k = "fin"
    /\ range[1] * Pow10(v.d) <= v.m
    /\ v.m <= range[2] * Pow10(v.d)

\* a row agrees with the three selections: an empty selection allows all
MatchesSelections(r) ==
    /\ rh_sel = {} \/ r.RH \in rh_sel
    /\ hair_sel = {} \/ r.Color_Cabello \in hair_sel
    /\ barrio_sel = {} \/ r.Barrio_Residencia \in barrio_sel

Matches(r) ==
    /\ MatchesSelections(r)
    /\ Within(r.Edad, edad_range)
    /\ Within(r.Estatura_cm, estatura_range)

\* C5: the filtered view holds exactly the rows of the table whose three
\* categorical values are in the non-empty selections, whose age is in the
\* age range and whose height is in the height range (ends included), in
\* the order of the table.
C5_FilteredExact ==
    pc = "filtered" =>
        /\ RowsOf(filtered) = {r \in RowsOf(df) : Matches(r)}
        /\ \A i, j \in 1..Len(filtered) :
               i < j => filtered[i].idx < filtered[j].idx

\* a selection and a range have kept one row of two, with the hair selection
\* empty and the kept row's height at the upper end of its range
C5_Witness ==
    /\ pc = "filtered"
    /\ Len(df) = 2
    /\ Len(filtered) = 1
    /\ hair_sel = {}
    /\ rh_sel # {}
    /\ estatura_range = <<175, 175>>
    /\ filtered[1].Estatura_cm = Num(175)

\* a row is kept by every filter but the age range / the height range
KeptButEdad(r) == MatchesSelections(r) /\ Within(r.Estatura_cm, estatura_range)
KeptButEstatura(r) == MatchesSelections(r) /\ Within(r.Edad, edad_range)

\* C6 as stated: a row without age (height) is excluded by the range filter,
\* unless the range is the whole domain, and then it is not excluded.
C6_AsStated ==
    pc = "filtered" =>
        \A r \in RowsOf(df) :
            /\ (isna(r.Edad) /\ KeptButEdad(r)) =>
                   (r \in RowsOf(filtered)
                        <=> edad_range = <<SliderMin, EdadSliderMax>>)
            /\ (isna(r.Estatura_cm) /\ KeptButEstatura(r)) =>
                   (r \in RowsOf(filtered)
                        <=> estatura_range = <<SliderMin, EstaturaSliderMax>>)

\* C6 amended: a row without age or without height is excluded by the range
\* filter whatever the range, the whole domain included.
C6_AbsentExcluded ==
    pc = "filtered" =>
        \A r \in RowsOf(filtered) : ~isna(r.Edad) /\ ~isna(r.Estatura_cm)

\* with both sliders on their whole domain, a row without age that the
\* selections allow is not in the view
C6_Witness ==
    /\ pc = "filtered"
    /\ edad_range = <<SliderMin, EdadSliderMax>>
    /\ estatura_range = <<SliderMin, EstaturaSliderMax>>
    /\ \E r \in RowsOf(df) :
           /\ isna(r.Edad)
           /\ KeptButEdad(r)
           /\ r \notin RowsOf(filtered)

\* C8 as stated: after derivation every column of the file still holds the
\* value that was loaded.
C8_AsStated ==
    pc # "loaded" =>
        \A i \in 1..Len(raw) : \A c \in expected_cols : df[i][c] = raw[i][c]

\* the columns the derivation does not assign
kept_cols == expected_cols \ ({"Peso"} \cup text_cols)

\* C8 amended: after derivation the columns Codigo, Nombre_Estudiante,
\* Apellido_Estudiante, Fecha_Nacimiento, Estatura and Talla_Zapato still
\* hold the value that was loaded; Peso, RH, Color_Cabello and
\* Barrio_Residencia are assigned in place.
C8_KeptColumns ==
    pc # "loaded" =>
        /\ Len(df) = Len(raw)
        /\ \A i \in 1..Len(raw) : \A c \in kept_cols : df[i][c] = raw[i][c]

\* a table has been derived whose weight text was replaced by a number
C8_Witness ==
    /\ pc = "derived"
    /\ Len(df) >= 1
    /\ raw[1].Peso = Str(<<"7", "0", ",", "5">>)
    /\ df[1].Peso = Fin(705, 1)
    /\ df[1].Estatura = raw[1].Estatura

\* the widgets hold the values the first run gives them
AtDefaults ==
    /\ rh_sel = options(df, "RH")
    /\ hair_sel = options(df, "Color_Cabello")
    /\ barrio_sel = options(df, "Barrio_Residencia")
    /\ edad_range = default_range(df, "Edad", 0, EdadDefaultMax)
    /\ estatura_range = default_range(df, "Estatura_cm", 0, EstaturaSliderMax)

\* C9: with the widgets at their defaults, every row with an age and a
\* height is in the filtered view.
C9_DefaultsKeepAll ==
    (pc = "filtered" /\ AtDefaults) =>
        \A r \in RowsOf(df) :
            (~isna(r.Edad) /\ ~isna(r.Estatura_cm)) => r \in RowsOf(filtered)

\* C10: a text column's missing value is still missing after derivation, and
\* a present value is its trimmed, title-cased text.
C10_AbsencePreserved ==
    pc # "loaded" =>
        \A i \in 1..Len(raw) : \A c \in text_cols :
            IF isna(raw[i][c]) THEN isna(df[i][c])
            ELSE df[i][c] = Str(title(strip(raw[i][c].s)))

---------------------------------------------------------------------------
(* The script: top 5 by height and by weight (lines 249-250) *)

\* the upper bound of the number of rows of the filtered view
MaxTopRows == 6

\* head(5)
TopN == 5

\* The first n rows of d.sort_values(by=col, ascending=False), as the set of
\* results the sort may give.  The rows with a key come first, by key
\* descending; the default sort kind, quicksort, is not stable, so rows of
\* equal key come in any order.  The rows without a key follow in the order
\* of the table.
RECURSIVE sorted_heads(_, _, _, _)
sorted_heads(d, col, S, n) ==
    IF n = 0 \/ S = {} THEN {<<>>}
    ELSE LET first == {i \in S : \A j \in S : Ge(d[i][col], d[j][col])}
         IN  UNION {{<<d[i]>> \o rest :
                        rest \in sorted_heads(d, col, S \ {i}, n - 1)} :
                    i \in first}

\* the rows of d whose key is missing, in the order of the table
na_rows(d, col) ==
    LET IsNa(r) == isna(r[col]) IN SelectSeq(d, IsNa)

head(s, n) == SubSeq(s, 1, IF Len(s) < n THEN Len(s) ELSE n)

\* top5 with the rows without key placed first
top5_na_first(d, col) ==
    {head(na_rows(d, col) \o h, TopN) :
        h \in sorted_heads(d, col, {i \in 1..Len(d) : ~isna(d[i][col])}, TopN)}

\* d.sort_values(by=col, ascending=False).head(5): the results it may give
top5(d, col) ==
    {head(h \o na_rows(d, col), TopN) :
        h \in sorted_heads(d, col, {i \in 1..Len(d) : ~isna(d[i][col])}, TopN)}

\* the rows of the filtered views of this part: the columns the selection
\* reads, of distinct students
TopRow(cod, est, pes) == [Codigo |-> cod, Estatura_cm |-> est, Peso |-> pes]
TopRows ==
    {TopRow(1, Num(170), Num(60)),
     TopRow(2, Num(170), Num(70)),
     TopRow(3, Num(180), NaN),
     TopRow(4, NaN, Num(60)),
     TopRow(5, Num(180), Num(80)),
     TopRow(6, NaN, NaN),
     TopRow(7, Fin(1655, 1), Inf(1))}

\* a view of n distinct rows, each with its index label
TopTables ==
    UNION {{[i \in 1..n |->
                [idx |-> i, Codigo |-> f[i].Codigo,
                 Estatura_cm |-> f[i].Estatura_cm, Peso |-> f[i].Peso]] :
              f \in {g \in [1..n -> TopRows] :
                        \A i, j \in 1..n : i # j => g[i] # g[j]}} :
           n \in 0..MaxTopRows}

TopInit ==
    /\ call = Call("script", NaN, NaN, NoDate, NoDate)
    /\ ret = Pending
    /\ pc = "filtered"
    /\ today = RunDate
    /\ raw = <<>>
    /\ df = <<>>
    /\ rh_sel = {}
    /\ hair_sel = {}
    /\ barrio_sel = {}
    /\ edad_range = <<SliderMin, EdadSliderMax>>
    /\ estatura_range = <<SliderMin, EstaturaSliderMax>>
    /\ filtered \in TopTables
    /\ top5_est = <<>>
    /\ top5_peso = <<>>

\* line 249
Top5Est ==
    /\ pc = "filtered"
    /\ top5_est' \in top5(filtered, "Estatura_cm")
    /\ pc' = "top5_est"
    /\ UNCHANGED <<call, ret, today, raw, df, rh_sel, hair_sel, barrio_sel,
                   edad_range, estatura_range, filtered, top5_peso>>

\* line 250
Top5Peso ==
    /\ pc = "top5_est"
    /\ top5_peso' \in top5(filtered, "Peso")
    /\ pc' = "top5_peso"
    /\ UNCHANGED <<call, ret, today, raw, df, rh_sel, hair_sel, barrio_sel,
                   edad_range, estatura_range, filtered, top5_est>>

TopNext ==
    \/ Top5Est
    \/ Top5Peso

TopSpec == TopInit /\ [][TopNext]_vars

---------------------------------------------------------------------------
(* Properties of the top-5 selection *)

Min(a, b) == IF a < b THEN a ELSE b

\* out is a selection of the rows of the view by the key col: min(5, n) rows
\* of the view, none twice, by key descending with the rows without key
\* last, and no row left out has a greater key than a row taken
IsTop5(out, col) ==
    /\ Len(out) = Min(TopN, Len(filtered))
    /\ \A i \in 1..Len(out) : out[i] \in RowsOf(filtered)
    /\ \A i, j \in 1..Len(out) : i # j => out[i].idx # out[j].idx
    /\ \A i, j \in 1..Len(out) :
           i < j => \/ isna(out[j][col])
                    \/ (~isna(out[i][col]) /\ ~Lt(out[i][col], out[j][col]))
    /\ \A r \in RowsOf(filtered) \ RowsOf(out) :
           \A i \in 1..Len(out) :
               isna(r[col]) \/ (~isna(out[i][col]) /\ ~Lt(out[i][col], r[col]))

\* rows of out with equal keys are in the order of the view
TiesInOrder(out, col) ==
    \A i, j \in 1..Len(out) :
        (i < j /\ Eq(out[i][col], out[j][col])) => out[i].idx < out[j].idx

\* C7 as stated: each top-5 selection is min(5, n) rows of the view by key
\* descending, rows without key last, rows of equal key in their original
\* order, and no row left out has a key above one taken.
C7_AsStated ==
    pc = "top5_peso" =>
        /\ IsTop5(top5_est, "Estatura_cm") /\ TiesInOrder(top5_est, "Estatura_cm")
        /\ IsTop5(top5_peso, "Peso") /\ TiesInOrder(top5_peso, "Peso")

\* C7 amended: each top-5 selection is min(5, n) rows of the view by key
\* descending, rows without key last, and no row left out has a key above
\* one taken; rows of equal key come in any order.
C7_Top5 ==
    /\ pc \in {"top5_est", "top5_peso"} => IsTop5(top5_est, "Estatura_cm")
    /\ pc = "top5_peso" => IsTop5(top5_peso, "Peso")

\* of a view of 6 rows, 5 were taken by height: the tallest first, a row
\* without height last
C7_Witness ==
    /\ pc = "top5_peso"
    /\ Len(filtered) = 6
    /\ Len(top5_est) = 5
    /\ top5_est[1].Estatura_cm = Num(180)
    /\ isna(top5_est[5].Estatura_cm)
    /\ Len(top5_peso) = 5
    /\ top5_peso[1].Peso = Inf(1)

====
